---- MODULE Spec2Model ----
(***************************************************************************)
(* A model of tst/Transformer.py: the construction of a Transformer and    *)
(* its forward pass, as a state machine over a heap of tensors.            *)
(*                                                                         *)
(* A tensor is a record [shape, val]: shape is the tuple of its dimensions *)
(* and val is the symbolic value it holds, a term in prefix notation       *)
(* written as a flat sequence of tokens (strings).  The library and the    *)
(* collaborator layers are uninterpreted: two tensors hold the same value  *)
(* exactly when they were computed by the same operations from the same    *)
(* operands.  Tensors live in a heap and are named by their address, so    *)
(* that aliasing (decoding = encoding) and in-place updates (add_) behave  *)
(* as they do in the program.                                              *)
(*                                                                         *)
(* The float32 arithmetic of the final sigmoid is modelled apart, in       *)
(* SpecSigmoid, on one element of the projected tensor.                    *)
(***************************************************************************)
EXTENDS Integers, Sequences, FiniteSets, TLC

VARIABLES status, args, error, self, heap, calls, results, completed, started,
          preact, squashed

vars == <<status, args, error, self, heap, calls, results, completed, started,
          preact, squashed>>

-----------------------------------------------------------------------------
(* Bounds of the model.                                                    *)

\* Largest stack depth N a model is constructed with.
MaxN == 2

\* Number of forward calls started on one model.
MaxCalls == 2

\* Largest magnitude of a finite pre-activation drawn in SpecSigmoid.
MaxPreact == 110

\* Callers that may be inside forward at the same time.
Threads == {"t1", "t2"}

-----------------------------------------------------------------------------
(* Values.                                                                 *)

\* Python's None, as the value of the pe argument and of self._PE's slot.
PyNone == "<None>"

\* The address that refers to no tensor (self._PE = None, an unset local).
NoAddr == 0

Tensor(shape, val) == [shape |-> shape, val |-> val]

NoTensor == Tensor(<<>>, <<>>)

NoError == [type |-> "", stage |-> "", value |-> "", allowed |-> <<>>]

Numeral(i) ==
    IF i \in 1..9 THEN <<"1", "2", "3", "4", "5", "6", "7", "8", "9">>[i]
    ELSE "n"

-----------------------------------------------------------------------------
(* Construction: Transformer.__init__.                                     *)

\* The values of pe tried at construction: the two names, None, and three
\* strings that are none of them.
PEArgs == {"original", "regular", PyNone, "none", "Original", "sinusoidal"}

\* The widths and the time length tried at construction: all different, and
\* different from the batch sizes of the inputs.
DimChoices ==
    { [d_input |-> 3, d_model |-> 4, d_output |-> 5, k |-> 2] }

CtorArgs ==
    { [d_input |-> d.d_input, d_model |-> d.d_model, d_output |-> d.d_output,
       k |-> d.k, N |-> n, pe |-> p] :
        d \in DimChoices, n \in 0..MaxN, p \in PEArgs }

\* pe_functions.keys(), in the dict's insertion order.
pe_functions == <<"original", "regular">>

PEKeys == { pe_functions[j] : j \in 1..Len(pe_functions) }

\* A resolver that treats every unknown name as None.
ResolvePESilent(pe) ==
    IF pe \in PEKeys THEN "generate" ELSE "none"

\* The if / elif / else over pe: which branch is taken.
ResolvePE(pe) ==
    IF pe \in PEKeys THEN "generate"
    ELSE IF pe = PyNone THEN "none"
    ELSE "raise"

\* generate_original_PE / generate_regular_PE: a fixed (length, width) table
\* that depends on the variant, the length and the width only.
GeneratePE(pe, k, d_model) ==
    Tensor(<<k, d_model>>, <<"PE", pe, Numeral(k), Numeral(d_model)>>)

\* The parameters of one Encoder / Decoder layer, created at construction.
LayerParams(kind, j) == Tensor(<<>>, <<kind, Numeral(j)>>)

\* The weight and bias of an nn.Linear(in_features, out_features).
LinearParams(name, in_features, out_features) ==
    Tensor(<<out_features, in_features>>, <<name>>)

\* The tensors the model owns after construction, in the order __init__
\* creates them: N encoder layers, N decoder layers, _embedding, _linear, _PE.
BuildHeap(a) ==
    LET n == a.N
        base == [j \in 1..(2 * n + 2) |->
                    IF j <= n THEN LayerParams("enc", j)
                    ELSE IF j <= 2 * n THEN LayerParams("dec", j - n)
                    ELSE IF j = 2 * n + 1
                         THEN LinearParams("W_embedding", a.d_input, a.d_model)
                    ELSE LinearParams("W_linear", a.d_model, a.d_output)]
    IN  IF ResolvePE(a.pe) = "generate"
        THEN [j \in 1..(2 * n + 3) |->
                 IF j <= 2 * n + 2 THEN base[j]
                 ELSE GeneratePE(a.pe, a.k, a.d_model)]
        ELSE base

\* The attributes of the constructed object: addresses into the heap.
BuildSelf(a) ==
    [layers_encoding |-> [j \in 1..a.N |-> j],
     layers_decoding |-> [j \in 1..a.N |-> a.N + j],
     _embedding |-> [weight |-> 2 * a.N + 1,
                     in_features |-> a.d_input, out_features |-> a.d_model],
     _linear |-> [weight |-> 2 * a.N + 2,
                  in_features |-> a.d_model, out_features |-> a.d_output],
     _PE |-> IF ResolvePE(a.pe) = "generate" THEN 2 * a.N + 3 ELSE NoAddr]

NoSelf ==
    [layers_encoding |-> <<>>, layers_decoding |-> <<>>,
     _embedding |-> [weight |-> NoAddr, in_features |-> 0, out_features |-> 0],
     _linear |-> [weight |-> NoAddr, in_features |-> 0, out_features |-> 0],
     _PE |-> NoAddr]

\* raise NameError(f'PE "{pe}" not understood. Must be one of ... or None.')
PENameError(pe) ==
    [type |-> "NameError", stage |-> "__init__", value |-> pe,
     allowed |-> pe_functions \o <<"None">>]

NoArgs ==
    [d_input |-> 0, d_model |-> 0, d_output |-> 0, k |-> 0, N |-> 0, pe |-> PyNone]

IdleFrame ==
    [pc |-> "idle", x |-> [id |-> "", shape |-> <<>>],
     encoding |-> NoAddr, decoding |-> NoAddr, output |-> NoAddr,
     i |-> 0, trace |-> <<>>]

Construct ==
    /\ status = "new"
    /\ \E a \in CtorArgs :
        /\ args' = a
        /\ IF ResolvePE(a.pe) = "raise"
           THEN /\ status' = "failed"
                /\ error' = PENameError(a.pe)
                /\ self' = NoSelf
                /\ heap' = <<>>
           ELSE /\ status' = "ready"
                /\ error' = NoError
                /\ self' = BuildSelf(a)
                /\ heap' = BuildHeap(a)
    /\ UNCHANGED <<calls, results, completed, started, preact, squashed>>

-----------------------------------------------------------------------------
(* The heap.                                                               *)

\* The addresses of the tensors the model owns: those its attributes refer to.
Persistent ==
    ({ self.layers_encoding[j] : j \in 1..Len(self.layers_encoding) }
        \cup { self.layers_decoding[j] : j \in 1..Len(self.layers_decoding) }
        \cup {self._embedding.weight, self._linear.weight, self._PE}) \ {NoAddr}

\* A reused scratch buffer: every allocation returns the first address after
\* the model's own tensors.
FreshAddrReused(h) == Cardinality(Persistent) + 1

\* A new tensor gets an address no live tensor has.
FreshAddr(h) ==
    CHOOSE a \in 1..(Cardinality(DOMAIN h) + 1) :
        /\ a \notin DOMAIN h
        /\ \A b \in 1..(a - 1) : b \in DOMAIN h

Store(h, a, t) == [b \in DOMAIN h \cup {a} |-> IF b = a THEN t ELSE h[b]]

\* The tensors the frames' local variables refer to.
FrameRefs(f) == {f.encoding, f.decoding, f.output} \ {NoAddr}

\* Reference counting: a tensor no attribute and no local refers to is freed.
Collect(h, cs) ==
    LET live == Persistent \cup UNION { FrameRefs(cs[c]) : c \in Threads }
    IN  [b \in DOMAIN h \cap live |-> h[b]]

-----------------------------------------------------------------------------
(* The library operations forward uses.                                    *)

\* A projection that accepts an input of any trailing width.
LinearAcceptsAny(lin, shape) == Len(shape) >= 1

\* nn.Linear raises a RuntimeError unless the input's trailing dimension is
\* in_features.
LinearAccepts(lin, shape) ==
    /\ Len(shape) >= 1
    /\ shape[Len(shape)] = lin.in_features

\* A projection that keeps the width of its input.
LinearKeepsWidth(lin, w, x) ==
    Tensor(x.shape, <<"linear">> \o w.val \o x.val)

\* nn.Linear applied to x: a new tensor, the trailing dimension replaced by
\* out_features.
Linear(lin, w, x) ==
    Tensor([x.shape EXCEPT ![Len(x.shape)] = lin.out_features],
           <<"linear">> \o w.val \o x.val)

\* Whether target.add_(source) is allowed: source must broadcast to the shape
\* of target, aligned on the trailing dimensions.
BroadcastsInto(target, source) ==
    /\ Len(source) <= Len(target)
    /\ \A j \in 1..Len(source) :
          LET s == source[Len(source) + 1 - j]
              t == target[Len(target) + 1 - j]
          IN  s = t \/ s = 1

\* An in-place addition with its operands exchanged: source.add_(target).
AddInPlaceSwapped(h, target, source) ==
    [h EXCEPT ![source].val = <<"add">> \o h[source].val \o h[target].val]

\* An addition that also accumulates into the table: both operands updated.
AddInPlaceAccumulating(h, target, source) ==
    [h EXCEPT ![target].val = <<"add">> \o h[target].val \o h[source].val,
              ![source].val = <<"add">> \o h[source].val \o h[target].val]

\* target.add_(source): the tensor at target is updated, no tensor is created.
AddInPlace(h, target, source) ==
    [h EXCEPT ![target].val = <<"add">> \o h[target].val \o h[source].val]

\* An Encoder layer: a new tensor of the shape of its input.
Encoder(params, x) ==
    Tensor(x.shape, <<"encoder">> \o params.val \o x.val)

\* A Decoder layer: a new tensor of the shape of the decoding state.
Decoder(params, x, memory) ==
    Tensor(x.shape, <<"decoder">> \o params.val \o x.val \o memory.val)

\* torch.sigmoid: a new tensor of the same shape.
Sigmoid(x) == Tensor(x.shape, <<"sigmoid">> \o x.val)

\* Iterating a stack from its last layer to its first.
LayerAtReversed(stack, j) == stack[Len(stack) + 1 - j]

\* for layer in stack: the j-th layer visited.
LayerAt(stack, j) == stack[j]

ShapeError(stage) ==
    [type |-> "RuntimeError", stage |-> stage, value |-> "shape",
     allowed |-> <<>>]

-----------------------------------------------------------------------------
(* forward.                                                                *)

InputIds == {"x1", "x2", "x3"}

\* The inputs tried: two of shape (batch_size, k, d_input) and one whose
\* trailing width is not d_input.
InputPool(a) ==
    { [id |-> "x1", shape |-> <<1, a.k, a.d_input>>],
      [id |-> "x2", shape |-> <<6, a.k, a.d_input>>],
      [id |-> "x3", shape |-> <<6, a.k, a.d_input + 1>>] }

XTensor(x) == Tensor(x.shape, <<x.id>>)

Event(op, layer) == [op |-> op, layer |-> layer]

Outcome(x, raised, out, trace) ==
    [x |-> x, raised |-> raised, out |-> out, trace |-> trace]

HasPE == self._PE # NoAddr

\* A call leaves forward, by return or by an exception: its locals go away.
Leave(c, outcome) ==
    LET cs == [calls EXCEPT ![c] = IdleFrame]
    IN  /\ calls' = cs
        /\ heap' = Collect(heap, cs)
        /\ results' = results \cup {outcome}
        /\ completed' = [completed EXCEPT ![outcome.x.id] = @ + 1]

\* A caller enters forward(x).
Start(c) ==
    /\ status = "ready"
    /\ calls[c].pc = "idle"
    /\ started < MaxCalls
    /\ \E x \in InputPool(args) :
          calls' = [calls EXCEPT ![c] = [IdleFrame EXCEPT !.pc = "embed", !.x = x]]
    /\ started' = started + 1
    /\ UNCHANGED <<status, args, error, self, heap, results, completed,
                   preact, squashed>>

\* encoding = self._embedding(x)
Embed(c) ==
    LET f == calls[c]
        lin == self._embedding
        x == XTensor(f.x)
    IN  /\ f.pc = "embed"
        /\ IF ~LinearAccepts(lin, x.shape)
           THEN Leave(c, Outcome(f.x, ShapeError("embedding"), NoTensor, f.trace))
           ELSE LET a == FreshAddr(heap)
                    t == Linear(lin, heap[lin.weight], x)
                    cs == [calls EXCEPT ![c] =
                              [f EXCEPT !.pc = "pe1", !.encoding = a,
                                        !.trace = Append(@,
                                            Event("embedding", 0))]]
                IN  /\ calls' = cs
                    /\ heap' = Collect(Store(heap, a, t), cs)
                    /\ UNCHANGED <<results, completed>>
        /\ UNCHANGED <<status, args, error, self, started, preact, squashed>>

\* The locals after a positional step: before the decoder stack the decoding
\* state is bound to the tensor encoding refers to.
Advance(f, next) ==
    [f EXCEPT !.pc = next, !.i = 1,
              !.decoding = IF next = "decode" THEN f.encoding ELSE @]

\* if self._PE is not None: encoding.add_(self._PE), then pc moves to next.
AddPositional(c, next) ==
    LET f == calls[c]
    IN  IF ~HasPE
        THEN /\ calls' = [calls EXCEPT ![c] = Advance(f, next)]
             /\ UNCHANGED <<heap, results, completed>>
        ELSE IF ~BroadcastsInto(heap[f.encoding].shape, heap[self._PE].shape)
        THEN Leave(c, Outcome(f.x, ShapeError("add_"), NoTensor, f.trace))
        ELSE LET h == AddInPlace(heap, f.encoding, self._PE)
             IN  /\ heap' = h
                 /\ calls' = [calls EXCEPT ![c] =
                        [Advance(f, next) EXCEPT
                            !.trace = Append(@, Event("add_", 0))]]
                 /\ UNCHANGED <<results, completed>>

\* The first addition does not happen.
AddPE1Skipped(c) ==
    /\ calls[c].pc = "pe1"
    /\ calls' = [calls EXCEPT ![c] = [@ EXCEPT !.pc = "encode", !.i = 1]]
    /\ UNCHANGED <<heap, results, completed>>
    /\ UNCHANGED <<status, args, error, self, started, preact, squashed>>

\* The addition before the encoder stack.
AddPE1(c) ==
    /\ calls[c].pc = "pe1"
    /\ AddPositional(c, "encode")
    /\ UNCHANGED <<status, args, error, self, started, preact, squashed>>

\* for layer in self.layers_encoding: encoding = layer(encoding)
EncodeLayer(c) ==
    LET f == calls[c]
    IN  /\ f.pc = "encode"
        /\ f.i <= Len(self.layers_encoding)
        /\ LET layer == LayerAt(self.layers_encoding, f.i)
               a == FreshAddr(heap)
               t == Encoder(heap[layer], heap[f.encoding])
               cs == [calls EXCEPT ![c] =
                         [f EXCEPT !.encoding = a, !.i = @ + 1,
                                   !.trace = Append(@,
                                       Event("encoder", f.i))]]
           IN  /\ calls' = cs
               /\ heap' = Collect(Store(heap, a, t), cs)
        /\ UNCHANGED <<status, args, error, self, results, completed, started,
                       preact, squashed>>

\* The addition after the encoder stack, and decoding = encoding.
AddPE2(c) ==
    /\ calls[c].pc = "encode"
    /\ calls[c].i > Len(self.layers_encoding)
    /\ AddPositional(c, "decode")
    /\ UNCHANGED <<status, args, error, self, started, preact, squashed>>

\* A decoder loop that threads the memory: encoding = decoding = layer(...).
DecodeLayerThreaded(c) ==
    LET f == calls[c]
    IN  /\ f.pc = "decode"
        /\ f.i <= Len(self.layers_decoding)
        /\ LET layer == LayerAt(self.layers_decoding, f.i)
               a == FreshAddr(heap)
               t == Decoder(heap[layer], heap[f.decoding], heap[f.encoding])
               cs == [calls EXCEPT ![c] =
                         [f EXCEPT !.decoding = a, !.encoding = a, !.i = @ + 1,
                                   !.trace = Append(@,
                                       Event("decoder", f.i))]]
           IN  /\ calls' = cs
               /\ heap' = Collect(Store(heap, a, t), cs)
        /\ UNCHANGED <<status, args, error, self, results, completed, started,
                       preact, squashed>>

\* for layer in self.layers_decoding: decoding = layer(decoding, encoding)
DecodeLayer(c) ==
    LET f == calls[c]
    IN  /\ f.pc = "decode"
        /\ f.i <= Len(self.layers_decoding)
        /\ LET layer == LayerAt(self.layers_decoding, f.i)
               a == FreshAddr(heap)
               t == Decoder(heap[layer], heap[f.decoding], heap[f.encoding])
               cs == [calls EXCEPT ![c] =
                         [f EXCEPT !.decoding = a, !.i = @ + 1,
                                   !.trace = Append(@,
                                       Event("decoder", f.i))]]
           IN  /\ calls' = cs
               /\ heap' = Collect(Store(heap, a, t), cs)
        /\ UNCHANGED <<status, args, error, self, results, completed, started,
                       preact, squashed>>

\* output = self._linear(decoding)
Project(c) ==
    LET f == calls[c]
        lin == self._linear
    IN  /\ f.pc = "decode"
        /\ f.i > Len(self.layers_decoding)
        /\ IF ~LinearAccepts(lin, heap[f.decoding].shape)
           THEN Leave(c, Outcome(f.x, ShapeError("linear"), NoTensor, f.trace))
           ELSE LET a == FreshAddr(heap)
                    t == Linear(lin, heap[lin.weight], heap[f.decoding])
                    cs == [calls EXCEPT ![c] =
                              [f EXCEPT !.pc = "squash", !.output = a,
                                        !.trace = Append(@,
                                            Event("linear", 0))]]
                IN  /\ calls' = cs
                    /\ heap' = Collect(Store(heap, a, t), cs)
                    /\ UNCHANGED <<results, completed>>
        /\ UNCHANGED <<status, args, error, self, started, preact, squashed>>

\* output = torch.sigmoid(output); return output
Squash(c) ==
    LET f == calls[c]
        t == Sigmoid(heap[f.output])
    IN  /\ f.pc = "squash"
        /\ Leave(c, Outcome(f.x, NoError, t, Append(f.trace, Event("sigmoid", 0))))
        /\ UNCHANGED <<status, args, error, self, started, preact, squashed>>

-----------------------------------------------------------------------------
(* The specification of construction and forward.                          *)

Init ==
    /\ status = "new"
    /\ args = NoArgs
    /\ error = NoError
    /\ self = NoSelf
    /\ heap = <<>>
    /\ calls = [c \in Threads |-> IdleFrame]
    /\ results = {}
    /\ completed = [x \in InputIds |-> 0]
    /\ started = 0
    /\ preact = [kind |-> "int", v |-> 0]
    /\ squashed = [kind |-> "unset", v |-> 0]

Next ==
    \/ Construct
    \/ \E c \in Threads : Start(c)
    \/ \E c \in Threads : Embed(c)
    \/ \E c \in Threads : AddPE1(c)
    \/ \E c \in Threads : EncodeLayer(c)
    \/ \E c \in Threads : AddPE2(c)
    \/ \E c \in Threads : DecodeLayer(c)
    \/ \E c \in Threads : Project(c)
    \/ \E c \in Threads : Squash(c)

Spec == Init /\ [][Next]_vars

-----------------------------------------------------------------------------
(* The float32 arithmetic of torch.sigmoid, on one element.                *)
(*                                                                         *)
(* A float32 value is [kind, v]: an integer v ("int"), plus or minus        *)
(* infinity ("inf", v the sign), not-a-number ("nan"), or a value strictly *)
(* between 0 and 1 ("frac").                                               *)

\* The format of the tensors nn.Linear creates by default: 24 bits of
\* precision, smallest positive value 2^-149.
Float32 == [precision |-> 24, min_exponent |-> -149]

F32Int(v) == [kind |-> "int", v |-> v]

F32Inf(sign) == [kind |-> "inf", v |-> sign]

F32NaN == [kind |-> "nan", v |-> 0]

F32Frac == [kind |-> "frac", v |-> 0]

Unset == [kind |-> "unset", v |-> 0]

\* The values one element of self._linear(decoding) is drawn from: the
\* integers up to MaxPreact in magnitude, and what overflow produces.
F32Samples ==
    { F32Int(z) : z \in (0 - MaxPreact)..MaxPreact }
        \cup {F32Inf(1), F32Inf(-1), F32NaN}

\* No squashing: the projection is returned as it is.
SigmoidSkipped(z) == z

\* 1 / (1 + exp(-z)), rounded to the nearest float32.  The exact value is
\* within half a unit in the last place of 1 once exp(z) >= 2^(precision+1),
\* that is z >= (precision + 1) * ln 2, and it is then rounded to 1; it is
\* below half the smallest positive float32 once
\* exp(-z) >= 2^(1 - min_exponent), and it is then rounded to 0.  ln 2 is
\* taken as 693147 / 1000000.
Sigmoid32(z) ==
    IF z.kind = "nan" THEN F32NaN
    ELSE IF z.kind = "inf" THEN (IF z.v > 0 THEN F32Int(1) ELSE F32Int(0))
    ELSE IF z.v * 1000000 >= (Float32.precision + 1) * 693147 THEN F32Int(1)
    ELSE IF (0 - z.v) * 1000000 >= (1 - Float32.min_exponent) * 693147
         THEN F32Int(0)
    ELSE F32Frac

\* output = torch.sigmoid(output), on the element.
ApplySigmoid ==
    /\ squashed = Unset
    /\ squashed' = Sigmoid32(preact)
    /\ UNCHANGED <<status, args, error, self, heap, calls, results, completed,
                   started, preact>>

InitSigmoid ==
    /\ status = "new"
    /\ args = NoArgs
    /\ error = NoError
    /\ self = NoSelf
    /\ heap = <<>>
    /\ calls = [c \in Threads |-> IdleFrame]
    /\ results = {}
    /\ completed = [x \in InputIds |-> 0]
    /\ started = 0
    /\ preact \in F32Samples
    /\ squashed = Unset

NextSigmoid == ApplySigmoid

SpecSigmoid == InitSigmoid /\ [][NextSigmoid]_vars

-----------------------------------------------------------------------------
(* What the properties are stated with.                                    *)

\* The calls that returned a tensor.
Returned == { r \in results : r.raised = NoError }

WellFormed(x) == x.shape[Len(x.shape)] = args.d_input

Built == status = "ready"

TableRequested == args.pe \in {"original", "regular"}

\* The table the generator returns for the constructed configuration.
Table == GeneratePE(args.pe, args.k, args.d_model).val

Plus(v) == IF TableRequested THEN <<"add">> \o v \o Table ELSE v

RECURSIVE EncoderChain(_, _)
\* Encoder layers 1..j applied in stack order to v.
EncoderChain(j, v) ==
    IF j = 0 THEN v
    ELSE <<"encoder">> \o LayerParams("enc", j).val \o EncoderChain(j - 1, v)

\* The encoder memory of input x: the stack's output after the second addition.
MemoryOf(x) ==
    Plus(EncoderChain(args.N, Plus(<<"linear", "W_embedding", x.id>>)))

RECURSIVE DecoderChain(_, _)
\* Decoder layers 1..j applied in stack order, each given the memory m.
DecoderChain(j, m) ==
    IF j = 0 THEN m
    ELSE <<"decoder">> \o LayerParams("dec", j).val \o DecoderChain(j - 1, m) \o m

\* The stages of one complete pass, in order.
StageOrder ==
    <<Event("embedding", 0)>>
        \o (IF TableRequested THEN <<Event("add_", 0)>> ELSE <<>>)
        \o [j \in 1..args.N |-> Event("encoder", j)]
        \o (IF TableRequested THEN <<Event("add_", 0)>> ELSE <<>>)
        \o [j \in 1..args.N |-> Event("decoder", j)]
        \o <<Event("linear", 0), Event("sigmoid", 0)>>

Additions(trace) == { j \in 1..Len(trace) : trace[j].op = "add_" }

Busy(c) == calls[c].pc # "idle"

RECURSIVE EncodeAlone(_, _, _)
EncodeAlone(own, j, t) ==
    IF j = 0 THEN t
    ELSE Encoder(own[j], EncodeAlone(own, j - 1, t))

RECURSIVE DecodeAlone(_, _, _)
DecodeAlone(own, j, m) ==
    IF j = 0 THEN m
    ELSE Decoder(own[args.N + j], DecodeAlone(own, j - 1, m), m)

AddAlone(t) ==
    IF TableRequested THEN Tensor(t.shape, <<"add">> \o t.val \o Table) ELSE t

\* The tensor forward(x) returns when it is the only call on a model whose
\* parameters are those of construction.
ForwardAlone(x) ==
    LET own == BuildHeap(args)
        obj == BuildSelf(args)
        emb == Linear(obj._embedding, own[obj._embedding.weight], XTensor(x))
        mem == AddAlone(EncodeAlone(own, args.N, AddAlone(emb)))
    IN  Sigmoid(Linear(obj._linear, own[obj._linear.weight],
                       DecodeAlone(own, args.N, mem)))

-----------------------------------------------------------------------------
(* The properties.                                                         *)

\* C1: construction with a pe that is one of "original", "regular" or None
\* succeeds, and builds a table exactly for the two names; construction with
\* any other pe fails with a NameError that names the value and the allowed
\* set, and builds no model.
C1_UnknownPERejected ==
    status # "new" =>
        IF args.pe \in {"original", "regular", PyNone}
        THEN /\ status = "ready"
             /\ error = NoError
             /\ (self._PE # NoAddr) <=> (args.pe # PyNone)
             /\ self._PE # NoAddr => heap[self._PE] = GeneratePE(args.pe, args.k, args.d_model)
        ELSE /\ status = "failed"
             /\ error.type = "NameError"
             /\ error.value = args.pe
             /\ error.allowed = <<"original", "regular", "None">>
             /\ self = NoSelf
             /\ heap = <<>>

\* A construction with the string "none" has failed.
C1_Witness == status = "failed" /\ args.pe = "none"

\* C2: a complete pass of a model with a table performs exactly two
\* additions, the first right after the embedding and the second right after
\* the last encoder layer, and the memory the decoder stack sees holds the
\* table added at these two points; a pass of a model without a table
\* performs no addition.
C2_TableAddedTwiceOrNever ==
    /\ \A r \in Returned :
          IF TableRequested
          THEN Additions(r.trace) = {2, args.N + 3}
          ELSE Additions(r.trace) = {}
    /\ \A c \in Threads :
          calls[c].pc = "decode" =>
             /\ Cardinality(Additions(calls[c].trace))
                    = (IF TableRequested THEN 2 ELSE 0)
             /\ heap[calls[c].encoding].val = MemoryOf(calls[c].x)

\* A pass with a table and a non-empty stack has returned.
C2_Witness ==
    \E r \in Returned : TableRequested /\ args.N >= 1 /\ Len(r.trace) = 2 * args.N + 5

\* C3: in the decoder phase the decoding state starts as the tensor encoding
\* refers to, that tensor keeps the value the second addition left, and after
\* j decoder layers the decoding state is layers 1..j applied in turn, each
\* with that memory as its second argument.
C3_MemoryFixedAcrossDecoders ==
    \A c \in Threads :
        LET f == calls[c]
        IN  (f.pc = "decode" \/ f.pc = "squash") =>
               /\ heap[f.encoding].val = MemoryOf(f.x)
               /\ f.pc = "decode" =>
                     /\ heap[f.decoding].val = DecoderChain(f.i - 1, MemoryOf(f.x))
                     /\ f.i = 1 => f.decoding = f.encoding
               /\ f.pc = "squash" =>
                     heap[f.output].val =
                        <<"linear", "W_linear">> \o DecoderChain(args.N, MemoryOf(f.x))

\* A call has run two decoder layers of a model with a table.
C3_Witness ==
    \E c \in Threads :
        /\ calls[c].pc = "decode"
        /\ calls[c].i >= 3
        /\ TableRequested
        /\ calls[c].decoding # calls[c].encoding

\* C4: a complete pass runs embedding, encoder layers 1..N, decoder layers
\* 1..N, projection and sigmoid in this order, each layer once, each stage on
\* the output of the stage before it; a call in progress has run a prefix of
\* this order.
C4_StagesInOrder ==
    /\ \A r \in Returned :
          /\ r.trace = StageOrder
          /\ r.out.val = <<"sigmoid", "linear", "W_linear">>
                            \o DecoderChain(args.N, MemoryOf(r.x))
    /\ \A c \in Threads :
          Busy(c) =>
             /\ Len(calls[c].trace) <= Len(StageOrder)
             /\ calls[c].trace = SubSeq(StageOrder, 1, Len(calls[c].trace))

\* A pass through two encoder and two decoder layers has returned.
C4_Witness == \E r \in Returned : args.N >= 2 /\ Len(r.trace) >= 6

\* A pass through empty stacks has returned the projection of the embedding.
C4_WitnessEmpty ==
    \E r \in Returned :
        /\ args.N = 0
        /\ r.out.val = <<"sigmoid", "linear", "W_linear">>
                          \o Plus(Plus(<<"linear", "W_embedding", r.x.id>>))

\* C5: while the model exists, every tensor it owns holds the value
\* construction gave it, its attributes are those of construction, and when
\* no call is in progress the heap holds nothing else.
C5_ForwardLeavesModelUnchanged ==
    Built =>
        LET own == BuildHeap(args)
        IN  /\ self = BuildSelf(args)
            /\ \A a \in DOMAIN own : a \in DOMAIN heap /\ heap[a] = own[a]
            /\ (\A c \in Threads : ~Busy(c)) => heap = own

\* Two passes of a model with a table have returned.
C5_Witness ==
    /\ TableRequested
    /\ \E r \in Returned : TRUE
    /\ \E x \in InputIds, y \in InputIds :
          IF x = y THEN completed[x] >= 2
          ELSE completed[x] >= 1 /\ completed[y] >= 1

\* C6: a call whose input has a trailing width other than d_input ends with a
\* RuntimeError of the embedding, with no stage run and no tensor returned;
\* no call with such an input is ever past the embedding, and a call with a
\* well-formed input never raises.
C6_BadWidthFailsAtEmbedding ==
    /\ \A r \in results :
          IF WellFormed(r.x)
          THEN r.raised = NoError
          ELSE /\ r.raised = ShapeError("embedding")
               /\ r.trace = <<>>
               /\ r.out = NoTensor
    /\ \A c \in Threads :
          (Busy(c) /\ ~WellFormed(calls[c].x)) =>
             /\ calls[c].pc = "embed"
             /\ FrameRefs(calls[c]) = {}

\* A call with a malformed input has ended.
C6_Witness ==
    \E r \in results : ~WellFormed(r.x) /\ r.raised.type = "RuntimeError"

\* C7: a call with an input of shape (batch_size, k, d_input) returns a
\* tensor of shape (batch_size, k, d_output).
C7_OutputShape ==
    \A r \in results :
        WellFormed(r.x) =>
           /\ r.raised = NoError
           /\ r.out.shape = <<r.x.shape[1], args.k, args.d_output>>

\* A pass with a table, layers and a batch larger than one has returned.
C7_Witness ==
    \E r \in Returned : TableRequested /\ args.N >= 1 /\ r.x.shape[1] > 1

C9_Deterministic ==
    \A r1 \in results, r2 \in results :
        r1.x = r2.x => (r1.out = r2.out /\ r1.raised = r2.raised)

\* The same well-formed input has been passed twice through a model with a
\* table.
C9_Witness ==
    /\ TableRequested
    /\ \E r \in Returned : completed[r.x.id] >= 2

\* C10, as stated: the sigmoid of a finite element is strictly between 0
\* and 1.
C10_StrictlyInsideUnit ==
    (squashed # Unset /\ preact.kind = "int") => squashed.kind = "frac"

\* C10, amended: the sigmoid of an element that is not NaN is in the closed
\* interval from 0 to 1.
C10_InsideClosedUnit ==
    (squashed # Unset /\ preact.kind # "nan") =>
        \/ squashed.kind = "frac"
        \/ squashed.kind = "int" /\ squashed.v \in {0, 1}

\* The sigmoid of a finite element is exactly 1.
C10_Witness ==
    preact.kind = "int" /\ squashed = F32Int(1)

====
